---- MODULE Spec2Model ----
(***************************************************************************)
(* Multi-provider AI orchestration engine of the CADILLAC EV CIS AI        *)
(* services (src/ai-services/src/services/ai_provider.py, config.py).      *)
(*                                                                         *)
(* Python values are modelled as tagged records: PyNone, PyStr(s),         *)
(* PyDict(d).  A dict is a TLA+ function whose DOMAIN is its key set.      *)
(* A string is a sequence of tokens (see Char).  A call of a Python        *)
(* function is an outcome, Return(v) or Raise(e).                          *)
(***************************************************************************)
EXTENDS Naturals, Sequences, FiniteSets, TLC

VARIABLES
    api_key,              \* config.<provider>.api_key
    openai_client,        \* AIProviderService.openai_client
    available_providers,  \* AIProviderService.available_providers
    provider_priority,    \* AIProviderService.provider_priority
    pc,                   \* position of the analyze_customer_with_ai coroutine
    customer_data,        \* argument of the call
    vehicle_preferences,  \* argument of the call
    patched,              \* adapters replaced by a test double (patch.object)
    prompt,               \* local prompt
    idx,                  \* position of the for loop in provider_priority
    invoked,              \* history: adapters invoked in this call, in order
    netcalls,             \* history: network calls issued per provider
    adapter_outcome,      \* history: outcome of each adapter in this call
    response,             \* history: last response received from a provider
    ret,                  \* outcome of analyze_customer_with_ai
    content,              \* argument handed to _parse_ai_response
    parsed,               \* outcome of _parse_ai_response
    provider_status,      \* outcome of get_provider_status
    calls,                \* the calls in flight together on the one instance
    route,                \* answer of the /analyze-customer handler
    available_at_start    \* history: available_providers when the call began

vars == <<api_key, openai_client, available_providers, provider_priority, pc,
          customer_data, vehicle_preferences, patched, prompt, idx, invoked,
          netcalls, adapter_outcome, response, ret, content, parsed,
          provider_status, calls, route, available_at_start>>

config_vars == <<api_key, openai_client, available_providers,
                 provider_priority>>
call_vars == <<pc, customer_data, vehicle_preferences, patched, prompt, idx,
               invoked, netcalls, adapter_outcome, response, ret>>
parse_vars == <<content, parsed>>

-----------------------------------------------------------------------------
(* Python values and call outcomes *)

PyNone == [t |-> "none"]
PyStr(s) == [t |-> "str", s |-> s]
PyDict(d) == [t |-> "dict", d |-> d]

EmptyDict == [k \in {} |-> k]

Return(v) == [kind |-> "return", value |-> v]
Raise(e) == [kind |-> "raise", exc |-> e]

\* dict.get(key, default); AttributeError on a value that is no mapping
Get(d, key, default) == IF key \in DOMAIN d THEN d[key] ELSE default

\* `if result is not None:` in the place of `if result:`
Truthy_not_none(v) == v.t # "none"

\* truth value of `if result:`: None, "" and {} are false
Truthy(v) ==
    CASE v.t = "none" -> FALSE
      [] v.t = "str" -> v.s # <<>>
      [] v.t = "dict" -> DOMAIN v.d # {}

Providers == {"openai", "deepseek", "gemini"}

\* line 25: the literal assigned to self.provider_priority
PriorityOrder == <<"openai", "deepseek", "gemini">>

SeqToSet(s) == {s[i] : i \in 1..Len(s)}

RECURSIVE Filter(_, _)
Filter(s, keep) ==
    IF s = <<>> THEN <<>>
    ELSE IF Head(s) \in keep THEN <<Head(s)>> \o Filter(Tail(s), keep)
    ELSE Filter(Tail(s), keep)

-----------------------------------------------------------------------------
(* config.py *)

ApiKeys == {"", "sk-key"}

\* gemini appended on the credential of deepseek
get_available_ai_providers_wrong_key(keys) ==
    (IF keys["openai"] # "" /\ keys["openai"] # "" THEN <<"openai">> ELSE <<>>)
    \o (IF keys["deepseek"] # "" THEN <<"deepseek">> ELSE <<>>)
    \o (IF keys["deepseek"] # "" THEN <<"gemini">> ELSE <<>>)

\* the appends of gemini and deepseek in the other order
get_available_ai_providers_gemini_first(keys) ==
    (IF keys["openai"] # "" /\ keys["openai"] # "" THEN <<"openai">> ELSE <<>>)
    \o (IF keys["gemini"] # "" THEN <<"gemini">> ELSE <<>>)
    \o (IF keys["deepseek"] # "" THEN <<"deepseek">> ELSE <<>>)

\* Config.get_available_ai_providers: one append per non-empty credential
get_available_ai_providers(keys) ==
    (IF keys["openai"] # "" /\ keys["openai"] # "" THEN <<"openai">> ELSE <<>>)
    \o (IF keys["deepseek"] # "" THEN <<"deepseek">> ELSE <<>>)
    \o (IF keys["gemini"] # "" THEN <<"gemini">> ELSE <<>>)

\* config.<provider>.model
model_of(provider) ==
    CASE provider = "openai" -> "gpt-4-turbo-preview"
      [] provider = "deepseek" -> "deepseek-chat"
      [] provider = "gemini" -> "gemini-pro"

-----------------------------------------------------------------------------
(* Strings.  A string is a sequence of tokens; each token stands for the   *)
(* text written beside it.                                                 *)

Char == {
    "{",        \* {
    "}",        \* }
    "k_empty",  \* "empty":                        (a key, its value follows)
    "m_model",  \* "recommended_model": "LYRIQ Premium"
    "m_conf",   \* "confidence_score": 0.92
    "m_risk",   \* "risk_assessment": "low"        (no canonical key)
    "m_deep",   \* "deep": [[[[ ... ]]]]  nested beyond the recursion limit
    "word",     \* a word of prose naming no model
    "Lyriq",    \* the word Lyriq
    "vistiq"    \* the word vistiq
}

\* str.upper(), token by token
Upper(c) ==
    CASE c = "Lyriq" -> "LYRIQ"
      [] c = "vistiq" -> "VISTIQ"
      [] c = "word" -> "WORD"
      [] c = "k_empty" -> "K_EMPTY"
      [] c = "m_model" -> "M_MODEL"
      [] c = "m_conf" -> "M_CONF"
      [] c = "m_risk" -> "M_RISK"
      [] c = "m_deep" -> "M_DEEP"
      [] OTHER -> c

\* the upper-cased tokens whose text has LYRIQ as a substring
HasLYRIQ == {"LYRIQ", "M_MODEL"}

\* `"LYRIQ" in content.upper()`
LyriqInUpper(s) == \E i \in 1..Len(s) : Upper(s[i]) \in HasLYRIQ

\* `c in s`
Contains(s, c) == \E i \in 1..Len(s) : s[i] = c

\* s.find(c): 0-based index of the first c, -1 is not needed (guarded by `in`)
find(s, c) == (CHOOSE i \in 1..Len(s) : s[i] = c /\ \A j \in 1..(i - 1) : s[j] # c) - 1

\* s.rfind(c): 0-based index of the last c
rfind(s, c) == (CHOOSE i \in 1..Len(s) : s[i] = c /\ \A j \in (i + 1)..Len(s) : s[j] # c) - 1

\* s[start:end] for 0 <= start, end <= len(s); empty when start >= end
Slice(s, start, end) == [i \in 1..(IF end > start THEN end - start ELSE 0) |-> s[start + i]]

-----------------------------------------------------------------------------
(* json.loads on a token string.  The decoder reads left to right: the     *)
(* first offence decides the exception.                                    *)

ScalarMember == {"m_model", "m_conf", "m_risk"}

member_key(c) ==
    CASE c = "m_model" -> "recommended_model"
      [] c = "m_conf" -> "confidence_score"
      [] c = "m_risk" -> "risk_assessment"

member_value(c) ==
    CASE c = "m_model" -> "LYRIQ Premium"
      [] c = "m_conf" -> "0.92"
      [] c = "m_risk" -> "low"

\* decodes the members of an object from position i (after its "{") up to
\* and including its "}"; a repeated key keeps its last value
RECURSIVE JsonObject(_, _, _)
JsonObject(s, i, acc) ==
    IF i > Len(s) THEN [err |-> "JSONDecodeError", next |-> i, obj |-> acc]
    ELSE IF s[i] = "}" THEN [err |-> "", next |-> i + 1, obj |-> acc]
    ELSE IF s[i] \in ScalarMember
        THEN JsonObject(s, i + 1, (member_key(s[i]) :> member_value(s[i])) @@ acc)
    ELSE IF s[i] = "m_deep" THEN [err |-> "RecursionError", next |-> i, obj |-> acc]
    ELSE IF s[i] = "k_empty" /\ i < Len(s) /\ s[i + 1] = "{"
        THEN LET sub == JsonObject(s, i + 2, EmptyDict)
             IN  IF sub.err # "" THEN sub
                 ELSE JsonObject(s, sub.next, ("empty" :> sub.obj) @@ acc)
    ELSE [err |-> "JSONDecodeError", next |-> i, obj |-> acc]

json_loads(s) ==
    IF s = <<>> \/ s[1] # "{" THEN Raise("JSONDecodeError")
    ELSE LET r == JsonObject(s, 2, EmptyDict)
         IN  IF r.err # "" THEN Raise(r.err)
             ELSE IF r.next # Len(s) + 1 THEN Raise("JSONDecodeError")
             ELSE Return(PyDict(r.obj))

-----------------------------------------------------------------------------
(* ai_provider.py: request formatter, response normalizer, result shapes *)

\* the fields the prompt embeds, each rendered with the default of its .get;
\* .get on None or on a str raises AttributeError
_create_customer_analysis_prompt(cd, vp) ==
    IF cd.t # "dict" \/ vp.t # "dict" THEN Raise("AttributeError")
    ELSE Return(PyStr([firstName |-> Get(cd.d, "firstName", ""),
                       customerType |-> Get(cd.d, "customerType", ""),
                       canton |-> Get(cd.d, "canton", ""),
                       age |-> Get(cd.d, "age", "N/A"),
                       budget_max |-> Get(vp.d, "budget_max", "N/A"),
                       usage |-> Get(vp.d, "usage", "N/A")]))

\* the fields of the two mappings that the model of the prompt carries
CustomerFields == {"firstName", "customerType", "canton", "age"}
VehicleFields == {"budget_max", "usage"}

\* len of the text outside the six fields above: the literal of lines
\* 176-214 with lastName, city, email, phone, budget_min, features and
\* timeline rendered by their defaults
TemplateLen == 1345

\* 'x' * 100000 of test_input_validation_and_sanitization
HugeLen == 100000

\* len(str(v)) of the values a field takes here
FieldLen(v) ==
    CASE v = "" -> 0
      [] v = "N/A" -> 3
      [] v = "GE" -> 2
      [] v = "fleet" -> 5
      [] v = "private" -> 7
      [] v = "business" -> 8
      [] v = "100000" -> 6
      [] v = "x * 100000" -> HugeLen

\* len(prompt): the f-string has no truncation
PromptLen(fields) ==
    TemplateLen + FieldLen(fields.firstName) + FieldLen(fields.customerType)
        + FieldLen(fields.canton) + FieldLen(fields.age)
        + FieldLen(fields.budget_max) + FieldLen(fields.usage)

\* `"LYRIQ" in content`, without the upper(): only the text of m_model has
\* LYRIQ in capitals
_structure_text_response_case_sensitive(s) ==
    PyDict([recommended_model |-> IF Contains(s, "m_model") THEN "LYRIQ" ELSE "VISTIQ",
            confidence_score |-> "0.75",
            analysis |-> s,
            recommendations |->
                [model_rationale |-> "Based on AI analysis",
                 suggested_options |-> <<"Premium Package", "Technology Package">>,
                 financing_suggestion |-> "3.9% APR lease with CHF 10,000 down payment",
                 key_selling_points |-> <<"Swiss EV infrastructure",
                                          "Luxury and technology",
                                          "Environmental benefits">>],
            next_steps |-> <<"Schedule test drive", "Prepare TCO calculation",
                             "Review financing options">>])

\* lines 232-253
_structure_text_response(s) ==
    PyDict([recommended_model |-> IF LyriqInUpper(s) THEN "LYRIQ" ELSE "VISTIQ",
            confidence_score |-> "0.75",
            analysis |-> s,
            recommendations |->
                [model_rationale |-> "Based on AI analysis",
                 suggested_options |-> <<"Premium Package", "Technology Package">>,
                 financing_suggestion |-> "3.9% APR lease with CHF 10,000 down payment",
                 key_selling_points |-> <<"Swiss EV infrastructure",
                                          "Luxury and technology",
                                          "Environmental benefits">>],
            next_steps |-> <<"Schedule test drive", "Prepare TCO calculation",
                             "Review financing options">>])

\* the except clause of _parse_ai_response: json.JSONDecodeError alone
ParseCaught == {"JSONDecodeError"}

\* a span that stops short of the closing brace (rfind without the + 1)
_parse_ai_response_short_span(c) ==
    IF c.t # "str" THEN Raise("TypeError")
    ELSE IF Contains(c.s, "{") /\ Contains(c.s, "}")
        THEN LET start == find(c.s, "{")
                 end == rfind(c.s, "}")
                 json_str == Slice(c.s, start, end)
                 r == json_loads(json_str)
             IN  IF r.kind = "raise" /\ r.exc \in ParseCaught
                     THEN Return(_structure_text_response(c.s))
                 ELSE r
    ELSE Return(_structure_text_response(c.s))

\* c is the content handed in: PyNone or PyStr(s)
_parse_ai_response(c) ==
    IF c.t # "str" THEN Raise("TypeError")
    ELSE IF Contains(c.s, "{") /\ Contains(c.s, "}")
        THEN LET start == find(c.s, "{")
                 end == rfind(c.s, "}") + 1
                 json_str == Slice(c.s, start, end)
                 r == json_loads(json_str)
             IN  IF r.kind = "raise" /\ r.exc \in ParseCaught
                     THEN Return(_structure_text_response(c.s))
                 ELSE r
    ELSE Return(_structure_text_response(c.s))

\* an envelope that names openai whoever answered
_format_analysis_result_openai(result, provider) ==
    [success |-> TRUE,
     analysis |-> result,
     metadata |-> [provider |-> "openai",
                   timestamp |-> "now",
                   model_used |-> model_of("openai")]]

\* lines 255-265
_format_analysis_result(result, provider) ==
    [success |-> TRUE,
     analysis |-> result,
     metadata |-> [provider |-> provider,
                   timestamp |-> "now",
                   model_used |-> IF provider \in Providers THEN model_of(provider)
                                  ELSE "unknown"]]

\* a fallback that leaves the vocabulary for every profile that is not private
mock_model_premium(customer_type) ==
    IF customer_type = "private" THEN "LYRIQ" ELSE "VISTIQ Premium"

\* the two models the wrong way round
mock_model_swapped(customer_type) ==
    IF customer_type = "private" THEN "VISTIQ" ELSE "LYRIQ"

\* line 275: the model the fallback recommends
mock_model(customer_type) ==
    IF customer_type = "private" THEN "LYRIQ" ELSE "VISTIQ"

_generate_mock_analysis(cd, vp) ==
    IF cd.t # "dict" THEN Raise("AttributeError")
    ELSE LET customer_type == Get(cd.d, "customerType", "private")
             canton == Get(cd.d, "canton", "ZH")
             model == mock_model(customer_type)
         IN  Return(
             [success |-> TRUE,
              analysis |-> PyDict(
                  [recommended_model |-> model,
                   confidence_score |-> "0.85",
                   recommendations |->
                       [model_rationale |-> <<"Based on customer profile, ", model,
                            " offers the perfect balance for ", customer_type,
                            " customers in ", canton>>,
                        suggested_options |-> <<"Premium Package",
                            "Advanced Driver Assistance", "Panoramic Sunroof">>,
                        financing_suggestion |->
                            "3.9% APR lease with CHF 10,000 down payment",
                        key_selling_points |-> <<"530km range perfect for Swiss driving",
                            "Award-winning design", "Advanced technology features",
                            "Excellent resale value">>],
                   swiss_benefits |-> <<<<"Kanton ", canton, " EV incentives available">>,
                       <<"Swiss charging network compatibility">>,
                       <<"Tax advantages for business customers">>,
                       <<"Environmental consciousness alignment">>>>,
                   next_steps |-> <<"Schedule test drive",
                       "Prepare detailed TCO calculation", "Review financing options">>]),
              metadata |-> [provider |-> "mock",
                            timestamp |-> "now",
                            note |-> "Mock response - AI providers unavailable"]])

-----------------------------------------------------------------------------
(* What a provider call can meet.  build_error: the request could not be   *)
(* built (openai: the import or OpenAI(api_key=...) raises); error: the    *)
(* transport raises; timeout: the transport's timeout expires; http: a     *)
(* response with a status and a body.  A body is well-formed when it has   *)
(* the provider's shape (choices[0].message.content, or                    *)
(* candidates[0].content.parts[0].text); content is the text found there.  *)

Statuses == {200, 201, 401, 429, 500}

SampleContents == {
    PyNone,                                              \* content is None
    PyStr(<<>>),                                         \* ""
    PyStr(<<"word", "Lyriq">>),                          \* prose
    PyStr(<<"{", "k_empty", "word">>),                   \* {"empty": json
    PyStr(<<"{", "k_empty", "{", "}", "}">>),            \* {"empty": {}}
    PyStr(<<"{", "}">>),                                 \* {}
    PyStr(<<"word", "{", "m_model", "m_conf", "}">>),    \* prose, then an object
    PyStr(<<"{", "m_deep", "}">>)                        \* {"deep": [[[[...]]]]}
}

Http(status, wellformed, c) ==
    [kind |-> "http", status |-> status, wellformed |-> wellformed, content |-> c]

Event(kind) == [kind |-> kind, status |-> 0, wellformed |-> FALSE, content |-> PyNone]

HttpResponses ==
    {Http(200, TRUE, c) : c \in SampleContents}
    \cup {Http(201, TRUE, PyStr(<<"word", "Lyriq">>))}
    \cup {Http(st, FALSE, PyNone) : st \in Statuses}

NoResponse == Event("none")

\* `except Exception as e: ... return None`
Caught(o) == IF o.kind = "raise" THEN Return(PyNone) ELSE o

\* the try block of _call_openai; the SDK raises on a failed transport and
\* on every status outside 2xx
openai_try(r) ==
    IF r.kind # "http" THEN Raise("OpenAIError")
    ELSE IF r.status < 200 \/ r.status > 299 THEN Raise("APIStatusError")
    ELSE IF ~r.wellformed THEN Raise("IndexError")
    ELSE _parse_ai_response(r.content)

_call_openai(r) == Caught(openai_try(r))

\* the try block of _call_deepseek
deepseek_try(r) ==
    IF r.kind # "http" THEN Raise("HTTPError")
    ELSE IF r.status = 200
        THEN IF ~r.wellformed THEN Raise("KeyError")
             ELSE _parse_ai_response(r.content)
    ELSE Return(PyNone)

\* an adapter whose except clause is missing
_call_deepseek_uncaught(r) == deepseek_try(r)

_call_deepseek(r) == Caught(deepseek_try(r))

\* the try block of _call_gemini
gemini_try(r) ==
    IF r.kind # "http" THEN Raise("HTTPError")
    ELSE IF r.status = 200
        THEN IF ~r.wellformed THEN Raise("KeyError")
             ELSE _parse_ai_response(r.content)
    ELSE Return(PyNone)

_call_gemini(r) == Caught(gemini_try(r))

_call_ai_provider(provider, r) ==
    IF provider = "openai" THEN _call_openai(r)
    ELSE IF provider = "deepseek" THEN _call_deepseek(r)
    ELSE IF provider = "gemini" THEN _call_gemini(r)
    ELSE Return(PyNone)

\* the adapters that pass timeout=30.0 to their network call
HasTimeout == {"deepseek", "gemini"}

\* what the tests put in an adapter's place with patch.object
MockOutcomes == {
    Raise("Exception"),                               \* side_effect=Exception(...)
    Return(PyNone),                                   \* return_value=None
    Return(PyStr(<<>>)),                              \* return_value=""
    Return(PyStr(<<"word">>)),                        \* return_value="Not a JSON response"
    Return(PyDict([recommended_model |-> "LYRIQ"]))   \* return_value={...}
}

PatchSets == {{}, {"openai"}, {"openai", "deepseek"}, Providers}

-----------------------------------------------------------------------------
(* AIProviderService *)

\* __init__: client_ok is whether OpenAI(api_key=...) returns; when it
\* raises, openai leaves the list
ServiceInit(keys, client_ok) ==
    LET listed == get_available_ai_providers(keys)
    IN  IF "openai" \in SeqToSet(listed)
        THEN IF client_ok THEN [client |-> "OpenAI", available |-> listed]
             ELSE [client |-> "None", available |-> Filter(listed, Providers \ {"openai"})]
        ELSE [client |-> "None", available |-> listed]

CustomerInputs == {
    PyNone,
    PyStr(<<"word">>),
    PyDict(EmptyDict),
    PyDict([customerType |-> "private"]),
    PyDict([customerType |-> "business"]),
    PyDict([customerType |-> "fleet", canton |-> "GE"]),
    PyDict([firstName |-> "x * 100000"])
}

VehicleInputs == {
    PyNone,
    PyDict(EmptyDict),
    PyDict([budget_max |-> "100000"])
}

NotCalled == [kind |-> "not_called"]
NoRoute == [kind |-> "none"]
NoOutcome == [kind |-> "none"]

IdleCall ==
    /\ pc = "idle"
    /\ customer_data = PyNone
    /\ vehicle_preferences = PyNone
    /\ patched = {}
    /\ prompt = PyNone
    /\ idx = 1
    /\ invoked = <<>>
    /\ netcalls = [p \in Providers |-> 0]
    /\ adapter_outcome = [p \in Providers |-> NotCalled]
    /\ response = NoResponse
    /\ ret = NoOutcome

\* the calls of an instance that serves several at a time
NumCalls == 2
CallIds == 1..NumCalls

\* the locals of one coroutine of analyze_customer_with_ai
IdleConc ==
    [pc |-> "idle", customer_data |-> PyNone, vehicle_preferences |-> PyNone,
     idx |-> 1, outcome |-> [p \in Providers |-> NotCalled],
     ret |-> NoOutcome]

NoCalls == [c \in CallIds |-> IdleConc]

\* the module-level `ai_provider = AIProviderService()`
Construct ==
    \E keys \in [Providers -> ApiKeys], client_ok \in BOOLEAN :
        /\ api_key = keys
        /\ openai_client = ServiceInit(keys, client_ok).client
        /\ available_providers = ServiceInit(keys, client_ok).available
        /\ provider_priority = PriorityOrder

Init ==
    /\ Construct
    /\ IdleCall
    /\ content = PyNone
    /\ parsed = NoOutcome
    /\ provider_status = NoOutcome
    /\ calls = NoCalls
    /\ route = NoRoute
    /\ available_at_start = <<>>

\* line 42: the prompt is built before the try of the loop
analyze_customer_with_ai ==
    /\ pc = "idle"
    /\ route = NoRoute
    /\ \E cd \in CustomerInputs, vp \in VehicleInputs, ps \in PatchSets :
          /\ customer_data' = cd
          /\ vehicle_preferences' = vp
          /\ patched' = ps
          /\ LET o == _create_customer_analysis_prompt(cd, vp)
             IN  IF o.kind = "raise"
                 THEN pc' = "raised" /\ ret' = o /\ prompt' = prompt
                 ELSE pc' = "loop" /\ ret' = ret /\ prompt' = o.value
    /\ available_at_start' = available_providers
    /\ UNCHANGED <<idx, invoked, netcalls, adapter_outcome, response>>
    /\ UNCHANGED config_vars
    /\ UNCHANGED <<provider_status, calls, route>>
    /\ UNCHANGED parse_vars

\* lines 45-46: a provider that is not in available_providers is passed over
SkipProvider ==
    /\ pc = "loop"
    /\ idx <= Len(provider_priority)
    /\ provider_priority[idx] \notin SeqToSet(available_providers)
    /\ idx' = idx + 1
    /\ UNCHANGED <<pc, customer_data, vehicle_preferences, patched, prompt,
                   invoked, netcalls, adapter_outcome, response, ret>>
    /\ UNCHANGED config_vars
    /\ UNCHANGED <<provider_status, calls, route, available_at_start>>
    /\ UNCHANGED parse_vars

\* a loop that does not return on the first result
Resume_keeps_trying(p, o) ==
    /\ adapter_outcome' = [adapter_outcome EXCEPT ![p] = o]
    /\ ret' = IF o.kind = "return" /\ Truthy(o.value)
              THEN Return(_format_analysis_result(o.value, p)) ELSE ret
    /\ pc' = "loop"
    /\ idx' = idx + 1

\* a loop that gives up at the first adapter without a result
Resume_gives_up(p, o) ==
    /\ adapter_outcome' = [adapter_outcome EXCEPT ![p] = o]
    /\ IF o.kind = "return" /\ Truthy(o.value)
       THEN /\ ret' = Return(_format_analysis_result(o.value, p))
            /\ pc' = "done"
            /\ idx' = idx
       ELSE /\ ret' = _generate_mock_analysis(customer_data, vehicle_preferences)
            /\ pc' = "done"
            /\ idx' = idx

\* a loop that tries the same provider again after a failure
Resume_retries(p, o) ==
    /\ adapter_outcome' = [adapter_outcome EXCEPT ![p] = o]
    /\ IF o.kind = "return" /\ Truthy(o.value)
       THEN /\ ret' = Return(_format_analysis_result(o.value, p))
            /\ pc' = "done"
            /\ idx' = idx
       ELSE /\ ret' = ret
            /\ pc' = "loop"
            /\ idx' = idx

\* lines 49-53, once the adapter of provider p has ended with outcome o
Resume(p, o) ==
    /\ adapter_outcome' = [adapter_outcome EXCEPT ![p] = o]
    /\ IF o.kind = "return" /\ Truthy(o.value)
       THEN /\ ret' = Return(_format_analysis_result(o.value, p))
            /\ pc' = "done"
            /\ idx' = idx
       ELSE /\ ret' = ret
            /\ pc' = "loop"
            /\ idx' = idx + 1

\* the parse history of an adapter run on event r
NoteParse(p, r) ==
    IF r.kind = "http" /\ r.wellformed
       /\ (IF p = "openai" THEN r.status >= 200 /\ r.status <= 299 ELSE r.status = 200)
    THEN content' = r.content /\ parsed' = _parse_ai_response(r.content)
    ELSE UNCHANGED parse_vars

\* a loop without the test of line 46
InvokePatched_unchecked ==
    /\ pc = "loop"
    /\ idx <= Len(provider_priority)
    /\ LET p == provider_priority[idx]
       IN  /\ p \in patched
           /\ invoked' = Append(invoked, p)
           /\ \E o \in MockOutcomes : Resume(p, o)
    /\ UNCHANGED <<customer_data, vehicle_preferences, patched, prompt,
                   netcalls, response>>
    /\ UNCHANGED config_vars
    /\ UNCHANGED <<provider_status, calls, route, available_at_start>>
    /\ UNCHANGED parse_vars

\* line 48, a patched adapter: the test double answers at once
InvokePatched ==
    /\ pc = "loop"
    /\ idx <= Len(provider_priority)
    /\ LET p == provider_priority[idx]
       IN  /\ p \in SeqToSet(available_providers)
           /\ p \in patched
           /\ invoked' = Append(invoked, p)
           /\ \E o \in MockOutcomes : Resume(p, o)
    /\ UNCHANGED <<customer_data, vehicle_preferences, patched, prompt,
                   netcalls, response>>
    /\ UNCHANGED config_vars
    /\ UNCHANGED <<provider_status, calls, route, available_at_start>>
    /\ UNCHANGED parse_vars

\* a loop that starts the next adapter while the last one is still waiting
InvokeAdapter_no_await ==
    /\ pc \in {"loop", "await"}
    /\ LET i == IF pc = "await" THEN idx + 1 ELSE idx
       IN  /\ i <= Len(provider_priority)
           /\ provider_priority[i] \in SeqToSet(available_providers)
           /\ provider_priority[i] \notin patched
           /\ invoked' = Append(invoked, provider_priority[i])
           /\ netcalls' = [netcalls EXCEPT ![provider_priority[i]] = @ + 1]
           /\ pc' = "await"
           /\ idx' = i
    /\ UNCHANGED <<adapter_outcome, ret, response>>
    /\ UNCHANGED <<customer_data, vehicle_preferences, patched, prompt>>
    /\ UNCHANGED config_vars
    /\ UNCHANGED <<provider_status, calls, route, available_at_start>>
    /\ UNCHANGED parse_vars

\* line 48, a real adapter: it runs up to its network call
InvokeAdapter ==
    /\ pc = "loop"
    /\ idx <= Len(provider_priority)
    /\ LET p == provider_priority[idx]
       IN  /\ p \in SeqToSet(available_providers)
           /\ p \notin patched
           /\ invoked' = Append(invoked, p)
           /\ \/ /\ netcalls' = [netcalls EXCEPT ![p] = @ + 1]
                 /\ pc' = "await"
                 /\ UNCHANGED <<idx, adapter_outcome, ret, response>>
              \/ /\ p = "openai"
                 /\ response' = Event("build_error")
                 /\ Resume(p, _call_ai_provider(p, Event("build_error")))
                 /\ UNCHANGED netcalls
    /\ UNCHANGED <<customer_data, vehicle_preferences, patched, prompt>>
    /\ UNCHANGED config_vars
    /\ UNCHANGED <<provider_status, calls, route, available_at_start>>
    /\ UNCHANGED parse_vars

\* the network call ends: a response, or a transport failure
ProviderResponds ==
    /\ pc = "await"
    /\ LET p == provider_priority[idx]
       IN  \E r \in HttpResponses \cup {Event("error")} :
              /\ response' = r
              /\ NoteParse(p, r)
              /\ Resume(p, _call_ai_provider(p, r))
    /\ UNCHANGED <<customer_data, vehicle_preferences, patched, prompt,
                   invoked, netcalls>>
    /\ UNCHANGED config_vars
    /\ UNCHANGED <<provider_status, calls, route, available_at_start>>

\* lines 115 and 159: timeout=30.0 ends the wait with an exception
TransportTimeout ==
    /\ pc = "await"
    /\ LET p == provider_priority[idx]
       IN  /\ p \in HasTimeout
           /\ response' = Event("timeout")
           /\ Resume(p, _call_ai_provider(p, Event("timeout")))
    /\ UNCHANGED <<customer_data, vehicle_preferences, patched, prompt,
                   invoked, netcalls>>
    /\ UNCHANGED config_vars
    /\ UNCHANGED <<provider_status, calls, route, available_at_start>>
    /\ UNCHANGED parse_vars

\* a fallback whose note tells whether a provider was tried
Fallback_notes_attempts ==
    /\ pc = "loop"
    /\ idx > Len(provider_priority)
    /\ LET o == _generate_mock_analysis(customer_data, vehicle_preferences)
       IN  /\ ret' = IF o.kind = "raise" \/ invoked = <<>> THEN o
                      ELSE [o EXCEPT !.value.metadata.note =
                                "Mock response - all providers failed"]
           /\ pc' = IF o.kind = "raise" THEN "raised" ELSE "done"
    /\ UNCHANGED <<customer_data, vehicle_preferences, patched, prompt, idx,
                   invoked, netcalls, adapter_outcome, response>>
    /\ UNCHANGED config_vars
    /\ UNCHANGED <<provider_status, calls, route, available_at_start>>
    /\ UNCHANGED parse_vars

\* line 56: the loop is over without a return
Fallback ==
    /\ pc = "loop"
    /\ idx > Len(provider_priority)
    /\ LET o == _generate_mock_analysis(customer_data, vehicle_preferences)
       IN  /\ ret' = o
           /\ pc' = IF o.kind = "raise" THEN "raised" ELSE "done"
    /\ UNCHANGED <<customer_data, vehicle_preferences, patched, prompt, idx,
                   invoked, netcalls, adapter_outcome, response>>
    /\ UNCHANGED config_vars
    /\ UNCHANGED <<provider_status, calls, route, available_at_start>>
    /\ UNCHANGED parse_vars

\* the call is over; the service waits for the next one
NextRequest ==
    /\ pc \in {"done", "raised"} \/ route # NoRoute
    /\ pc' = "idle"
    /\ customer_data' = PyNone
    /\ vehicle_preferences' = PyNone
    /\ patched' = {}
    /\ prompt' = PyNone
    /\ idx' = 1
    /\ invoked' = <<>>
    /\ netcalls' = [p \in Providers |-> 0]
    /\ adapter_outcome' = [p \in Providers |-> NotCalled]
    /\ response' = NoResponse
    /\ ret' = NoOutcome
    /\ content' = PyNone
    /\ parsed' = NoOutcome
    /\ provider_status' = NoOutcome
    /\ route' = NoRoute
    /\ available_at_start' = <<>>
    /\ UNCHANGED config_vars
    /\ UNCHANGED calls

\* the handler's answer: jsonify(body), status
Answer(st, body) == [kind |-> "answered", status |-> st, body |-> body]

\* what the handler meets before the engine is called: request.get_json()
\* raises, or the body is no mapping and data.get raises
BodyErrors == {"BadRequest", "AttributeError"}

\* lines 15-37 of the handler once the engine call has ended with outcome o,
\* with the `, 500` of the except branch left out
analyze_customer_always_200(o) ==
    IF o.kind = "raise"
    THEN Answer(200, [success |-> FALSE, error |-> o.exc])
    ELSE Answer(200, o.value)

\* lines 15-37 of the handler once reading the body or the engine call has
\* ended with outcome o
analyze_customer(o) ==
    IF o.kind = "raise"
    THEN Answer(500, [success |-> FALSE, error |-> o.exc])
    ELSE Answer(200, o.value)

\* lines 16-19: the body cannot be read; the engine is not called
RouteRejects ==
    /\ pc = "idle"
    /\ route = NoRoute
    /\ \E e \in BodyErrors : route' = analyze_customer(Raise(e))
    /\ UNCHANGED config_vars
    /\ UNCHANGED call_vars
    /\ UNCHANGED parse_vars
    /\ UNCHANGED <<provider_status, calls, available_at_start>>

\* lines 24-37: the engine call is over and the handler answers
RouteAnswers ==
    /\ pc \in {"done", "raised"}
    /\ route = NoRoute
    /\ route' = analyze_customer(ret)
    /\ UNCHANGED config_vars
    /\ UNCHANGED call_vars
    /\ UNCHANGED parse_vars
    /\ UNCHANGED <<provider_status, calls, available_at_start>>

\* Config.validate_config, for the three providers
validate_config(keys) == [p \in Providers |-> [api_key_valid |-> keys[p] # ""]]

\* get_provider_status re-reading the configuration into the list (a refresh)
get_provider_status_refreshing ==
    /\ provider_status = NoOutcome
    /\ available_providers' = get_available_ai_providers(api_key)
    /\ provider_status' =
           Return([available_providers |-> available_providers',
                   provider_priority |-> provider_priority,
                   config_validation |-> validate_config(api_key)])
    /\ UNCHANGED <<api_key, openai_client, provider_priority>>
    /\ UNCHANGED call_vars
    /\ UNCHANGED parse_vars
    /\ UNCHANGED <<calls, route, available_at_start>>

\* lines 311-317: the report is read off the instance, at any moment
get_provider_status ==
    /\ provider_status = NoOutcome
    /\ provider_status' =
           Return([available_providers |-> available_providers,
                   provider_priority |-> provider_priority,
                   config_validation |-> validate_config(api_key)])
    /\ UNCHANGED config_vars
    /\ UNCHANGED call_vars
    /\ UNCHANGED parse_vars
    /\ UNCHANGED <<calls, route, available_at_start>>

Next ==
    \/ get_provider_status
    \/ RouteRejects
    \/ RouteAnswers
    \/ analyze_customer_with_ai
    \/ SkipProvider
    \/ InvokePatched
    \/ InvokeAdapter
    \/ ProviderResponds
    \/ TransportTimeout
    \/ Fallback
    \/ NextRequest

Spec == Init /\ [][Next]_vars

\* the event loop resumes a runnable coroutine, and a transport with a
\* timeout ends its wait; that a provider answers is not assumed
FairSpec ==
    /\ Spec
    /\ WF_vars(SkipProvider)
    /\ WF_vars(InvokePatched)
    /\ WF_vars(InvokeAdapter)
    /\ WF_vars(TransportTimeout)
    /\ WF_vars(Fallback)

-----------------------------------------------------------------------------
(* The list shared with the callers of get_provider_status.  The report    *)
(* holds self.available_providers itself, not a copy, so whoever has a     *)
(* report can change the list of the instance while a call is suspended    *)
(* in a provider call.                                                     *)

\* list.remove(q) on the list of a report, during the await of line 48
ListChanged ==
    /\ pc = "await"
    /\ provider_status.kind = "return"
    /\ \E q \in SeqToSet(available_providers) :
          /\ available_providers' =
                 Filter(available_providers, SeqToSet(available_providers) \ {q})
          /\ provider_status' =
                 [provider_status EXCEPT !.value.available_providers =
                      available_providers']
    /\ UNCHANGED <<api_key, openai_client, provider_priority>>
    /\ UNCHANGED call_vars
    /\ UNCHANGED parse_vars
    /\ UNCHANGED <<calls, route, available_at_start>>

NextShared == Next \/ ListChanged

SpecShared == Init /\ [][NextShared]_vars

-----------------------------------------------------------------------------
(* Several calls of analyze_customer_with_ai at a time on the one          *)
(* instance (asyncio.gather over the coroutines; one event loop per        *)
(* request in the route).  Each call has its own locals; the instance's    *)
(* attributes are shared.  The calls interleave step by step.              *)

ConcCustomers == {
    PyNone,
    PyDict([customerType |-> "private"]),
    PyDict([customerType |-> "business"])
}

\* what the provider answers to a call: a rejection, or an analysis
ConcResponses == {
    Http(500, FALSE, PyNone),
    Http(200, TRUE, PyStr(<<"word", "{", "m_model", "m_conf", "}">>))
}

\* lines 42-56 run from provider i on, for a call that meets outcome out[p]
\* at the adapter of provider p
RECURSIVE alone_from(_, _, _, _, _, _)
alone_from(i, cd, vp, avail, prio, out) ==
    IF i > Len(prio) THEN _generate_mock_analysis(cd, vp)
    ELSE IF /\ prio[i] \in SeqToSet(avail)
            /\ out[prio[i]].kind = "return"
            /\ Truthy(out[prio[i]].value)
        THEN Return(_format_analysis_result(out[prio[i]].value, prio[i]))
    ELSE alone_from(i + 1, cd, vp, avail, prio, out)

\* analyze_customer_with_ai run on its own, start to end
analyze_alone(cd, vp, avail, prio, out) ==
    LET o == _create_customer_analysis_prompt(cd, vp)
    IN  IF o.kind = "raise" THEN o
        ELSE alone_from(1, cd, vp, avail, prio, out)

ConcUnchanged ==
    /\ UNCHANGED config_vars
    /\ UNCHANGED call_vars
    /\ UNCHANGED parse_vars
    /\ UNCHANGED <<provider_status, route, available_at_start>>

\* line 42 of call c
ConcCall(c) ==
    /\ calls[c].pc = "idle"
    /\ \E cd \in ConcCustomers :
          LET vp == PyDict(EmptyDict)
              o == _create_customer_analysis_prompt(cd, vp)
          IN  calls' = [calls EXCEPT ![c] =
                  [@ EXCEPT !.customer_data = cd,
                            !.vehicle_preferences = vp,
                            !.pc = IF o.kind = "raise" THEN "raised" ELSE "loop",
                            !.ret = IF o.kind = "raise" THEN o ELSE @]]
    /\ ConcUnchanged

\* lines 45-46 of call c
ConcSkip(c) ==
    /\ calls[c].pc = "loop"
    /\ calls[c].idx <= Len(provider_priority)
    /\ provider_priority[calls[c].idx] \notin SeqToSet(available_providers)
    /\ calls' = [calls EXCEPT ![c].idx = @ + 1]
    /\ ConcUnchanged

\* line 48 of call c: the adapter is entered and waits for its provider
ConcInvoke(c) ==
    /\ calls[c].pc = "loop"
    /\ calls[c].idx <= Len(provider_priority)
    /\ provider_priority[calls[c].idx] \in SeqToSet(available_providers)
    /\ calls' = [calls EXCEPT ![c].pc = "await"]
    /\ ConcUnchanged

\* lines 49-53 of call c, once its adapter has its answer
ConcRespond(c) ==
    /\ calls[c].pc = "await"
    /\ \E r \in ConcResponses :
          LET p == provider_priority[calls[c].idx]
              o == _call_ai_provider(p, r)
          IN  calls' = [calls EXCEPT ![c] =
                  IF o.kind = "return" /\ Truthy(o.value)
                  THEN [@ EXCEPT !.outcome[p] = o,
                                 !.ret = Return(_format_analysis_result(o.value, p)),
                                 !.pc = "done"]
                  ELSE [@ EXCEPT !.outcome[p] = o,
                                 !.idx = @ + 1,
                                 !.pc = "loop"]]
    /\ ConcUnchanged

\* line 56 of call c
ConcFallback(c) ==
    /\ calls[c].pc = "loop"
    /\ calls[c].idx > Len(provider_priority)
    /\ calls' = [calls EXCEPT ![c] =
           [@ EXCEPT !.ret = _generate_mock_analysis(calls[c].customer_data,
                                                     calls[c].vehicle_preferences),
                     !.pc = "done"]]
    /\ ConcUnchanged

NextConc ==
    \E c \in CallIds :
        \/ ConcCall(c)
        \/ ConcSkip(c)
        \/ ConcInvoke(c)
        \/ ConcRespond(c)
        \/ ConcFallback(c)

SpecConc == Init /\ [][NextConc]_vars

-----------------------------------------------------------------------------
(* The response normalizer on its own: every content of at most MaxLen     *)
(* tokens, and None, is handed to _parse_ai_response.                      *)

MaxLen == 4

Strings == UNION {[1..n -> Char] : n \in 0..MaxLen}

ParseInputs == {PyNone} \cup {PyStr(s) : s \in Strings}

InitParse ==
    /\ api_key = [p \in Providers |-> ""]
    /\ openai_client = "None"
    /\ available_providers = <<>>
    /\ provider_priority = PriorityOrder
    /\ IdleCall
    /\ content \in ParseInputs
    /\ parsed = NoOutcome
    /\ provider_status = NoOutcome
    /\ calls = NoCalls
    /\ route = NoRoute
    /\ available_at_start = <<>>

Parse ==
    /\ parsed = NoOutcome
    /\ parsed' = _parse_ai_response(content)
    /\ UNCHANGED content
    /\ UNCHANGED config_vars
    /\ UNCHANGED <<provider_status, calls, route, available_at_start>>
    /\ UNCHANGED call_vars

SpecParse == InitParse /\ [][Parse]_vars

-----------------------------------------------------------------------------
(* Vocabulary of the properties *)

Pos(p) == CHOOSE i \in 1..Len(provider_priority) : provider_priority[i] = p

Available == SeqToSet(available_providers)

Invoked == SeqToSet(invoked)

Ended(p) == adapter_outcome[p].kind \in {"return", "raise"}

\* the adapter of p handed the orchestrator a non-empty result
Succeeded(p) ==
    /\ adapter_outcome[p].kind = "return"
    /\ Truthy(adapter_outcome[p].value)

\* the adapter of p reported failure (None, or nothing usable) or raised
Failed(p) == Ended(p) /\ ~Succeeded(p)

Returned == pc = "done" /\ ret.kind = "return"

\* the call returned and no adapter succeeded in it
ReturnedFallback == Returned /\ \A p \in Providers : ~Succeeded(p)

Vocabulary == {"LYRIQ", "VISTIQ"}

CanonicalKeys == {"recommended_model", "confidence_score", "recommendations",
                  "swiss_benefits", "next_steps"}

\* the try block of the adapter of p
TryOf(p, r) ==
    IF p = "openai" THEN openai_try(r)
    ELSE IF p = "deepseek" THEN deepseek_try(r)
    ELSE gemini_try(r)

-----------------------------------------------------------------------------
(* Properties *)

\* C1: analyze_customer_with_ai never raises to its caller, whatever the
\* customer profile, the vehicle preferences and the provider outcomes.
\* Violated: a profile that is None (or no mapping) raises AttributeError
\* at line 42, outside every try.
C1_NeverRaises == pc # "raised"

\* C2: with P1 ahead of P2 in the priority order and both available, once
\* the adapter of P1 has succeeded in a call the adapter of P2 is not
\* invoked in that call.
C2_PriorityOrdering ==
    \A p1 \in Providers, p2 \in Providers :
        (/\ Pos(p1) < Pos(p2)
         /\ p1 \in Available
         /\ p2 \in Available
         /\ Succeeded(p1))
        => (p2 \notin Invoked /\ adapter_outcome[p2] = NotCalled)

C2_Witness ==
    /\ pc = "done"
    /\ "openai" \in Available
    /\ "deepseek" \in Available
    /\ "gemini" \in Available
    /\ Succeeded("openai")

\* C3: when the list of available providers is empty or every attempted
\* adapter fails, the result has metadata.isFallback = true and
\* metadata.provider = "fallback".
\* Violated: the fallback result says provider "mock" and has no isFallback.
C3_FallbackLabelled ==
    ReturnedFallback =>
        /\ ret.value.metadata.provider = "fallback"
        /\ "isFallback" \in DOMAIN ret.value.metadata
        /\ ret.value.metadata.isFallback = TRUE

\* C4: whenever all adapters fail, whatever the customerType of the profile
\* (present or absent), the recommended model of the result is LYRIQ or
\* VISTIQ.
C4_FallbackVocabulary ==
    ReturnedFallback =>
        /\ ret.value.analysis.t = "dict"
        /\ "recommended_model" \in DOMAIN ret.value.analysis.d
        /\ ret.value.analysis.d.recommended_model \in Vocabulary

C4_Witness ==
    /\ ReturnedFallback
    /\ Len(invoked) = Len(provider_priority)
    /\ \E p \in Providers : adapter_outcome[p].kind = "raise"
    /\ \E p \in Providers : adapter_outcome[p] = Return(PyNone)
    /\ customer_data.t = "dict"
    /\ "customerType" \in DOMAIN customer_data.d
    /\ customer_data.d.customerType = "fleet"

\* C5: when the adapter of an available provider reports failure or raises,
\* the call is not aborted: the next available provider in priority order
\* is invoked, and when that one succeeds the result carries its name in
\* metadata.provider.
C5_AdvanceOnFailure ==
    \A p \in Providers, q \in Providers :
        (/\ Failed(p)
         /\ q \in Available
         /\ Pos(p) < Pos(q)
         /\ \A m \in Available : ~(Pos(p) < Pos(m) /\ Pos(m) < Pos(q)))
        => /\ q \in Invoked \/ (pc = "loop" /\ idx <= Pos(q))
           /\ Succeeded(q) =>
                 /\ Returned
                 /\ ret.value.metadata.provider = q

C5_Witness ==
    /\ adapter_outcome["openai"].kind = "raise"
    /\ adapter_outcome["deepseek"] = Return(PyNone)
    /\ invoked = <<"openai", "deepseek", "gemini">>
    /\ Succeeded("gemini")
    /\ Returned
    /\ ret.value.metadata.provider = "gemini"

\* C6: in both terminal states the result has every canonical field
\* (recommended model, confidence score, recommendations, Swiss benefits,
\* next steps, metadata), whatever text the succeeding provider returned.
\* Violated: the analysis is whatever mapping the text decoded to.
C6_FullyPopulated ==
    Returned =>
        /\ "metadata" \in DOMAIN ret.value
        /\ ret.value.analysis.t = "dict"
        /\ CanonicalKeys \subseteq DOMAIN ret.value.analysis.d

\* C7: a provider call that never answers is ended as a failure of that
\* provider, so a call suspended in a provider call always goes on to its
\* result.
\* Violated: the openai call is made without a timeout.
C7_NoStall == (pc = "await") ~> (pc = "done")

\* C8: a provider adapter never raises past its boundary: an exception
\* raised while the request is built, the network call runs or the response
\* is read ends the adapter with the failed outcome None.
C8_AdapterBoundary ==
    \A p \in Providers \ patched :
        Ended(p) =>
            /\ adapter_outcome[p].kind = "return"
            /\ (/\ p = invoked[Len(invoked)]
                /\ TryOf(p, response).kind = "raise")
               => adapter_outcome[p] = Return(PyNone)

C8_Witness ==
    /\ Len(invoked) > 0
    /\ LET p == invoked[Len(invoked)]
       IN  /\ p = "deepseek"
           /\ p \notin patched
           /\ Ended(p)
           /\ response.kind = "http"
           /\ response.status = 200
           /\ response.wellformed
           /\ TryOf(p, response).kind = "raise"

\* C9: _parse_ai_response returns a result for every input handed to it and
\* never raises.
\* Violated: None raises TypeError, and a span nested beyond the recursion
\* limit raises RecursionError; the except clause names JSONDecodeError only.
C9_NormalizerNeverRaises == parsed.kind # "raise"

\* C10: for every text without a brace span, or whose span from the first {
\* to the last } fails to decode, the normalizer returns the free-prose
\* result: confidence score 0.75 and the whole text under analysis.
\* Violated: a span that fails to decode with RecursionError (see C9).
C10_Degradation ==
    (/\ parsed.kind # "none"
     /\ content.t = "str"
     /\ \/ ~(Contains(content.s, "{") /\ Contains(content.s, "}"))
        \/ json_loads(Slice(content.s, find(content.s, "{"),
                            rfind(content.s, "}") + 1)).kind = "raise")
    => /\ parsed.kind = "return"
       /\ parsed.value.t = "dict"
       /\ "analysis" \in DOMAIN parsed.value.d
       /\ parsed.value.d.confidence_score = "0.75"
       /\ parsed.value.d.analysis = content.s

\* the tokens of prose: text without a brace
Prose == {"word", "Lyriq", "vistiq"}

\* the members whose key belongs to the canonical schema
CanonicalMember == {"m_model", "m_conf"}

\* s is prose, then one object of canonical members from i to j, then prose
CanonicalJsonAt(s, i, j) ==
    /\ i < j
    /\ s[i] = "{"
    /\ s[j] = "}"
    /\ \A k \in 1..Len(s) :
          IF k < i \/ k > j THEN s[k] \in Prose
          ELSE IF k > i /\ k < j THEN s[k] \in CanonicalMember
          ELSE TRUE

\* C11: normalizing a string that encodes a canonical-schema object, with or
\* without prose around the braces, gives a mapping in which every field the
\* string encodes has exactly the encoded value, and no other field.
C11_RoundTrip ==
    (parsed.kind # "none" /\ content.t = "str") =>
        \A i \in 1..Len(content.s), j \in 1..Len(content.s) :
            CanonicalJsonAt(content.s, i, j) =>
                /\ parsed.kind = "return"
                /\ parsed.value.t = "dict"
                /\ DOMAIN parsed.value.d =
                       {member_key(content.s[k]) : k \in (i + 1)..(j - 1)}
                /\ \A k \in (i + 1)..(j - 1) :
                       parsed.value.d[member_key(content.s[k])]
                           = member_value(content.s[k])

C11_Witness ==
    /\ parsed.kind = "return"
    /\ content = PyStr(<<"Lyriq", "{", "m_model", "}">>)
    /\ parsed.value.d.recommended_model = "LYRIQ Premium"

\* s lists distinct providers in ascending priority
AscendingPriority(s) ==
    \A i \in 1..Len(s), j \in 1..Len(s) : i < j => Pos(s[i]) < Pos(s[j])

\* C13 as stated: a provider is on the available list exactly when its
\* credential is non-empty, and the list is in ascending priority order.
C13_Availability ==
    /\ \A p \in Providers : p \in Available <=> api_key[p] # ""
    /\ AscendingPriority(available_providers)

\* C13 amended: a provider is on the available list exactly when its
\* credential is non-empty and, for openai, its client was constructed at
\* start-up; the list is in ascending priority order.
C13_AvailabilityAmended ==
    /\ \A p \in Providers :
          p \in Available <=>
              /\ api_key[p] # ""
              /\ p = "openai" => openai_client = "OpenAI"
    /\ AscendingPriority(available_providers)

C13_Witness ==
    /\ api_key["openai"] # ""
    /\ openai_client = "None"
    /\ available_providers = <<"deepseek", "gemini">>
    /\ pc = "done"

\* C14: no step of analyze_customer_with_ai and no get_provider_status
\* changes the available-provider list or the priority order of the instance.
C14_ReadOnly ==
    [][/\ available_providers' = available_providers
       /\ provider_priority' = provider_priority]_vars

C14_Witness ==
    /\ pc = "done"
    /\ provider_status.kind = "return"
    /\ Len(invoked) = 2
    /\ available_providers = <<"deepseek", "gemini">>
    /\ provider_priority = PriorityOrder

\* what counts as an explicit marker of a missing field
Markers == {"not specified", "N/A"}

\* 50KB max prompt size
PromptCap == 50000

\* C15: for two mappings with any subset of the embedded fields missing the
\* formatter returns a payload, never raises, and renders each missing field
\* as an explicit "not specified" marker.
C15_FormatterTotal ==
    (pc # "idle" /\ customer_data.t = "dict" /\ vehicle_preferences.t = "dict")
        => /\ pc # "raised"
           /\ prompt.t = "str"
           /\ \A f \in CustomerFields \ DOMAIN customer_data.d :
                  prompt.s[f] \in Markers
           /\ \A f \in VehicleFields \ DOMAIN vehicle_preferences.d :
                  prompt.s[f] \in Markers

\* C16: whatever the length of a field of the two mappings, the payload is
\* at most 50,000 characters long.
C16_SizeBound ==
    prompt.t = "str" => PromptLen(prompt.s) <= PromptCap

\* the customerType of the profile of the call, "absent" when it has none
CustomerType ==
    IF "customerType" \in DOMAIN customer_data.d
    THEN customer_data.d.customerType ELSE "absent"

\* the model per customerType, whatever the rest of the inputs
ModelByType ==
    [absent |-> "LYRIQ", private |-> "LYRIQ", business |-> "VISTIQ",
     fleet |-> "VISTIQ"]

\* C17: the model the fallback recommends depends on customerType alone:
\* VISTIQ for a business profile, LYRIQ for a private profile or one without
\* customerType; its confidence is always 0.85.
C17_FallbackHeuristic ==
    ReturnedFallback =>
        /\ ret.value.analysis.d.confidence_score = "0.85"
        /\ ret.value.analysis.d.recommended_model = ModelByType[CustomerType]
        /\ CustomerType = "business"
               => ret.value.analysis.d.recommended_model = "VISTIQ"
        /\ CustomerType \in {"private", "absent"}
               => ret.value.analysis.d.recommended_model = "LYRIQ"

C17_Witness ==
    /\ ReturnedFallback
    /\ CustomerType = "business"
    /\ ret.value.analysis.d.recommended_model = "VISTIQ"
    /\ \E p \in Providers : Failed(p)

\* C18: when an adapter succeeds with a mapping, every key of that mapping
\* is a top-level key of the returned mapping, with the same value.
C18_TopLevelKeys ==
    \A p \in Providers :
        (Returned /\ Succeeded(p) /\ adapter_outcome[p].value.t = "dict") =>
            \A k \in DOMAIN adapter_outcome[p].value.d :
                /\ k \in DOMAIN ret.value
                /\ ret.value[k] = adapter_outcome[p].value.d[k]

\* how many times p was invoked in the call
Invocations(p) == Cardinality({i \in 1..Len(invoked) : invoked[i] = p})

InFlight == Len(invoked) - Cardinality({p \in Providers : Ended(p)})

\* C20: within one call at most one provider call is in flight at any time,
\* and a provider call starts only after the one before it has ended in
\* failure.
C20_Sequential ==
    /\ InFlight <= 1
    /\ InFlight = 1 <=> pc = "await"
    /\ \A i \in 1..Len(invoked) :
          i < Len(invoked) => Failed(invoked[i])

C20_Witness ==
    /\ pc = "await"
    /\ invoked = <<"openai", "deepseek">>
    /\ Failed("openai")
    /\ ~Ended("deepseek")
    /\ netcalls["openai"] = 1

\* call c has ended
ConcEnded(c) == calls[c].pc \in {"done", "raised"}

\* what call c would return when run alone with its inputs and the outcomes
\* its adapters met
AloneResult(c) ==
    analyze_alone(calls[c].customer_data, calls[c].vehicle_preferences,
                  available_providers, provider_priority, calls[c].outcome)

\* the part of C12 about interference: a call that has ended, ended as it
\* would have ended alone
ConcIndependent == \A c \in CallIds : ConcEnded(c) => calls[c].ret = AloneResult(c)

\* C12: whatever the interleaving of the calls on the one instance, once
\* they have all ended every call has returned a result, and that result is
\* the one the call would return when run alone with the same inputs and
\* provider outcomes.
C12_ConcurrentCalls ==
    (\A c \in CallIds : ConcEnded(c)) =>
        \A c \in CallIds :
            /\ calls[c].ret.kind = "return"
            /\ calls[c].ret = AloneResult(c)

\* the adapter invoked last in the call
LastInvoked == invoked[Len(invoked)]

\* the response is a body of the provider's shape whose content is text
Parseable(r) == r.kind = "http" /\ r.wellformed /\ r.content.t = "str"

\* the adapter of p handed back a result, not None
AdapterSucceeded(p) ==
    /\ adapter_outcome[p].kind = "return"
    /\ adapter_outcome[p].value # PyNone

\* C21: the outcome of an adapter is a success exactly when the status of the
\* response is 2xx and its body can be parsed into the provider's shape;
\* every other status, a transport failure, and a body that is absent or
\* cannot be parsed give a failed outcome.
C21_Classification ==
    (invoked # <<>> /\ LastInvoked \notin patched /\ Ended(LastInvoked)) =>
        (AdapterSucceeded(LastInvoked) <=>
            /\ Parseable(response)
            /\ response.status >= 200
            /\ response.status <= 299)

\* the text names the model LYRIQ, in whatever case
NamesLyriq(s) == \E i \in 1..Len(s) : s[i] \in {"Lyriq", "m_model"}

\* the text names the model VISTIQ, in whatever case
NamesVistiq(s) == \E i \in 1..Len(s) : s[i] = "vistiq"

\* the normalizer took the free-prose path: the result carries the text
FreeProse ==
    /\ parsed.kind = "return"
    /\ parsed.value.t = "dict"
    /\ "analysis" \in DOMAIN parsed.value.d
    /\ content.t = "str"

\* the vocabulary in the order the claim gives it
VocabularyOrder == <<"LYRIQ", "VISTIQ">>

\* C22 as stated: in the free-prose path a text that names one model of the
\* vocabulary yields that model, and a text that names neither yields the
\* first entry of the vocabulary.
C22_ProseChoice ==
    FreeProse =>
        /\ (NamesLyriq(content.s) /\ ~NamesVistiq(content.s))
               => parsed.value.d.recommended_model = "LYRIQ"
        /\ (NamesVistiq(content.s) /\ ~NamesLyriq(content.s))
               => parsed.value.d.recommended_model = "VISTIQ"
        /\ (~NamesLyriq(content.s) /\ ~NamesVistiq(content.s))
               => parsed.value.d.recommended_model = VocabularyOrder[1]

\* C22 amended: in the free-prose path a text that names LYRIQ, in whatever
\* case, yields LYRIQ, also when it names VISTIQ too; every other text, one
\* that names VISTIQ alone or neither model, yields VISTIQ.
C22_ProseChoiceAmended ==
    FreeProse =>
        /\ NamesLyriq(content.s) => parsed.value.d.recommended_model = "LYRIQ"
        /\ ~NamesLyriq(content.s) => parsed.value.d.recommended_model = "VISTIQ"

C22_Witness ==
    /\ FreeProse
    /\ content.s = <<"word", "word">>
    /\ parsed.value.d.recommended_model = "VISTIQ"

\* the brace span of the text decoded: the result is the decoded object
Decoded ==
    /\ parsed.kind = "return"
    /\ parsed.value.t = "dict"
    /\ "analysis" \notin DOMAIN parsed.value.d

\* C23: when the brace span decodes, the result has the canonical keys only:
\* a key of the decoded object outside the canonical schema is absent from
\* the result, and a canonical key the object lacks is present with its
\* default.
C23_CanonicalOnly ==
    Decoded =>
        /\ DOMAIN parsed.value.d \subseteq CanonicalKeys
        /\ CanonicalKeys \subseteq DOMAIN parsed.value.d

\* a result without its generation timestamp
SansTimestamp(o) == [o EXCEPT !.value.metadata.timestamp = "-"]

\* the available-provider lists an instance can have
AvailLists == {Filter(PriorityOrder, S) : S \in SUBSET Providers}

\* the ways an adapter fails
FailureOutcomes == {Return(PyNone), Return(PyDict(EmptyDict)), Raise("Exception")}

\* C24: a call that ends in fallback returns what any other call with the
\* same customer profile and vehicle preferences returns when it ends in
\* fallback, whatever providers that call has available and however they
\* fail, the generation timestamp aside.
C24_FallbackDeterminism ==
    ReturnedFallback =>
        \A avail \in AvailLists, out \in [Providers -> FailureOutcomes] :
            SansTimestamp(analyze_alone(customer_data, vehicle_preferences,
                                        avail, provider_priority, out))
                = SansTimestamp(ret)

C24_Witness ==
    /\ ReturnedFallback
    /\ invoked = <<"deepseek", "gemini">>
    /\ adapter_outcome["deepseek"] = Return(PyNone)
    /\ customer_data = PyDict([customerType |-> "fleet", canton |-> "GE"])
    /\ ret.value.analysis.d.swiss_benefits[1][2] = "GE"

\* the providers the loop of the call has gone past
Passed == {p \in Providers : Pos(p) < idx}

\* C25: the providers a call attempts are those that were available when it
\* began, in priority order, also when the list is changed while the call
\* is suspended in a provider call.
C25_Snapshot ==
    pc \in {"loop", "await", "done"} =>
        /\ Invoked \subseteq SeqToSet(available_at_start)
        /\ \A p \in Passed : p \in SeqToSet(available_at_start) => p \in Invoked
        /\ AscendingPriority(invoked)

EmptyResult(p) ==
    /\ p \notin patched
    /\ adapter_outcome[p] = Return(PyDict(EmptyDict))

\* what holds in every state after an empty result of p: the loop has moved
\* on, every available provider it has passed since was tried, the result
\* is not p's, and it is the fallback when no later provider succeeded
AfterEmpty(p) ==
    /\ idx > Pos(p)
    /\ \A q \in Available \cap Passed : Pos(q) > Pos(p) => q \in Invoked
    /\ Returned =>
          /\ ret.value.metadata.provider # p
          /\ (\A q \in Available : Pos(q) > Pos(p) => ~Succeeded(q))
                 => ret.value.metadata.provider = "mock"

\* C27: a provider whose response decodes to an empty JSON object is treated
\* like a failed provider: the call goes on to the next available provider,
\* and it ends with the result of a later provider or, when none is left
\* or none succeeds, with the fallback result.
C27_EmptyIsFailure ==
    /\ [](\A p \in Providers : EmptyResult(p) => AfterEmpty(p))
    /\ \A p \in Providers :
          EmptyResult(p) ~> (Returned /\ ret.value.metadata.provider # p)

C27_Witness ==
    /\ EmptyResult("openai")
    /\ response = Http(200, TRUE, PyStr(<<"{", "}">>))
    /\ invoked = <<"openai">>
    /\ Available = {"openai"}
    /\ ReturnedFallback

\* C28: the adapter of a provider that is not on the available list (no
\* credential, or openai removed at construction) is never invoked in a
\* call, whatever the other providers do; with an empty list the result
\* comes without any adapter invocation.
C28_UnavailableNeverCalled ==
    /\ Invoked \subseteq Available
    /\ \A p \in Providers \ Available :
          /\ netcalls[p] = 0
          /\ adapter_outcome[p] = NotCalled
    /\ (available_providers = <<>> /\ pc = "done") =>
          /\ invoked = <<>>
          /\ ret.kind = "return"
          /\ ret.value.metadata.provider = "mock"

C28_Witness ==
    /\ api_key["openai"] # ""
    /\ openai_client = "None"
    /\ api_key["deepseek"] = ""
    /\ patched = Providers
    /\ invoked = <<"gemini">>
    /\ Failed("gemini")
    /\ ReturnedFallback

\* C29: in every report of get_provider_status each provider named in
\* available_providers has api_key_valid True in the config_validation of
\* the same report.
C29_ReportConsistent ==
    provider_status.kind = "return" =>
        \A p \in SeqToSet(provider_status.value.available_providers) :
            provider_status.value.config_validation[p].api_key_valid = TRUE

C29_Witness ==
    /\ provider_status.kind = "return"
    /\ provider_status.value.available_providers = <<"deepseek", "gemini">>
    /\ provider_status.value.config_validation["openai"].api_key_valid = TRUE
    /\ pc = "await"

\* C30: the /analyze-customer handler answers every request it has dealt
\* with: with status 500 and a body of success False and the error text
\* when reading the body or the engine call raised, and otherwise with the
\* result of the engine as it is.
C30_RouteEnvelope ==
    route.kind = "answered" =>
        IF pc = "done"
        THEN /\ ret.kind = "return"
             /\ route.status = 200
             /\ route.body = ret.value
        ELSE /\ route.status = 500
             /\ route.body.success = FALSE
             /\ IF pc = "raised" THEN route.body.error = ret.exc
                ELSE pc = "idle" /\ route.body.error \in BodyErrors

C30_Witness ==
    /\ pc = "raised"
    /\ customer_data = PyNone
    /\ route = Answer(500, [success |-> FALSE, error |-> "AttributeError"])

=============================================================================
